---- MODULE Spec2Model ----
(***************************************************************************)
(* Model of the coaching application's in-memory store (server/storage.ts, *)
(* class MemStorage), of the routes that write to it (server/routes.ts)    *)
(* and of the weekly chart derivation of the client                        *)
(* (client/src/components/PerformanceChart.tsx, chartData).                *)
(*                                                                         *)
(* A JavaScript Map is modelled as the sequence of its values in insertion *)
(* order (the order Map.values() iterates in); every value carries its key *)
(* in the field id.  Dates are day numbers of July 2023 (3 = 2023-07-03).  *)
(* A score is kept in tenths (40 = 4.0).                                   *)
(***************************************************************************)
EXTENDS Integers, Sequences, FiniteSets, TLC

VARIABLES
    players,                \* MemStorage.players
    assessments,            \* MemStorage.assessments
    metrics,                \* MemStorage.metrics
    videos,                 \* MemStorage.videos
    problemAreas,           \* MemStorage.problemAreas
    playerCurrentId,
    assessmentCurrentId,
    metricCurrentId,
    videoCurrentId,
    problemAreaCurrentId,
    pending,                \* createAssessment calls suspended at their await, oldest first
    last,                   \* the operation that ran last, with what it returned
    propAssessments,        \* the assessments prop handed to PerformanceChart
    propMetrics,            \* the metrics prop handed to PerformanceChart
    weeklyData              \* what chartData returned last

storeVars == <<players, assessments, metrics, videos, problemAreas,
               playerCurrentId, assessmentCurrentId, metricCurrentId,
               videoCurrentId, problemAreaCurrentId>>
chartVars == <<propAssessments, propMetrics, weeklyData>>
vars == <<storeVars, pending, last, chartVars>>

(***************************************************************************)
(* Bounds of the model.                                                    *)
(***************************************************************************)
\* How many records are created on top of the demo data.
MaxCreates == 3

\* The longest assessments and metrics props the chart is handed.
MaxChartAssessments == 3
MaxChartMetrics == 2

(***************************************************************************)
(* JavaScript values.                                                      *)
(***************************************************************************)
\* What Map.get answers for a key that is not stored.
undefined == [id |-> -1]

\* null (and a tag the insert left out) of a nullable text column.
NULL == "<null>"

(***************************************************************************)
(* Map, as the sequence of its values in insertion order.                  *)
(***************************************************************************)
MapHas(m, id) == \E i \in 1..Len(m) : m[i].id = id

MapGet(m, id) ==
    IF MapHas(m, id) THEN m[CHOOSE i \in 1..Len(m) : m[i].id = id] ELSE undefined

\* Map.set: a stored key keeps its place, a new key goes last.
MapSet(m, id, v) ==
    IF MapHas(m, id)
    THEN [i \in 1..Len(m) |-> IF m[i].id = id THEN v ELSE m[i]]
    ELSE Append(m, v)

MapIds(m) == {m[i].id : i \in 1..Len(m)}

(***************************************************************************)
(* MemStorage: the reads.                                                  *)
(***************************************************************************)
getPlayers == players

getPlayer(id) == MapGet(players, id)

getPlayerAssessments(playerId) ==
    SelectSeq(assessments, LAMBDA a : a.playerId = playerId)

getAssessment(id) == MapGet(assessments, id)

getAssessmentMetrics(assessmentId) ==
    SelectSeq(metrics, LAMBDA m : m.assessmentId = assessmentId)

getPlayerVideos(playerId) ==
    SelectSeq(videos, LAMBDA v : v.playerId = playerId)

getAssessmentProblemAreas(assessmentId) ==
    SelectSeq(problemAreas, LAMBDA a : a.assessmentId = assessmentId)

\* A criterion the filters object does not have.
Absent == "<undefined>"

\* filters.x && ...: undefined and the empty string are falsy.
Truthy(criterion) == criterion # Absent /\ criterion # ""

\* Mutant: the ballSpeed criterion is compared with the video's shotType.
getFilteredVideos_WrongField(playerId, filters) ==
    LET all == getPlayerVideos(playerId)
        byShotType ==
            IF Truthy(filters.shotType) /\ filters.shotType # "All Shot Types"
            THEN SelectSeq(all, LAMBDA video : video.shotType = filters.shotType)
            ELSE all
        byBallSpeed ==
            IF Truthy(filters.ballSpeed) /\ filters.ballSpeed # "All Speeds"
            THEN SelectSeq(byShotType, LAMBDA video : video.shotType = filters.ballSpeed)
            ELSE byShotType
    IN  IF Truthy(filters.batConnect) /\ filters.batConnect # "All"
        THEN SelectSeq(byBallSpeed, LAMBDA video : video.batConnect = filters.batConnect)
        ELSE byBallSpeed

\* Mutant: the plain 'All' is taken as the sentinel of every field.
getFilteredVideos_PlainAll(playerId, filters) ==
    LET all == getPlayerVideos(playerId)
        byShotType ==
            IF Truthy(filters.shotType) /\ filters.shotType # "All"
            THEN SelectSeq(all, LAMBDA video : video.shotType = filters.shotType)
            ELSE all
        byBallSpeed ==
            IF Truthy(filters.ballSpeed) /\ filters.ballSpeed # "All"
            THEN SelectSeq(byShotType, LAMBDA video : video.ballSpeed = filters.ballSpeed)
            ELSE byShotType
    IN  IF Truthy(filters.batConnect) /\ filters.batConnect # "All"
        THEN SelectSeq(byBallSpeed, LAMBDA video : video.batConnect = filters.batConnect)
        ELSE byBallSpeed

\* Mutant: the videos that pass the filters are returned newest first.
getFilteredVideos_NewestFirst(playerId, filters) ==
    LET all == getPlayerVideos(playerId)
        kept == SelectSeq(all, LAMBDA video :
                    /\ (Truthy(filters.shotType) /\ filters.shotType # "All Shot Types")
                          => video.shotType = filters.shotType
                    /\ (Truthy(filters.ballSpeed) /\ filters.ballSpeed # "All Speeds")
                          => video.ballSpeed = filters.ballSpeed
                    /\ (Truthy(filters.batConnect) /\ filters.batConnect # "All")
                          => video.batConnect = filters.batConnect)
    IN  [i \in 1..Len(kept) |-> kept[Len(kept) + 1 - i]]

getFilteredVideos(playerId, filters) ==
    LET all == getPlayerVideos(playerId)
        byShotType ==
            IF Truthy(filters.shotType) /\ filters.shotType # "All Shot Types"
            THEN SelectSeq(all, LAMBDA video : video.shotType = filters.shotType)
            ELSE all
        byBallSpeed ==
            IF Truthy(filters.ballSpeed) /\ filters.ballSpeed # "All Speeds"
            THEN SelectSeq(byShotType, LAMBDA video : video.ballSpeed = filters.ballSpeed)
            ELSE byShotType
    IN  IF Truthy(filters.batConnect) /\ filters.batConnect # "All"
        THEN SelectSeq(byBallSpeed, LAMBDA video : video.batConnect = filters.batConnect)
        ELSE byBallSpeed

(***************************************************************************)
(* The state the constructor leaves: the counters at 1, the maps empty,    *)
(* then initDemoData.  Its forEach starts the four createAssessment calls  *)
(* at once: the first (isLatest) waits at its await while the other three  *)
(* take the ids 1, 2 and 3, and it takes the id 4 when it resumes, before  *)
(* any request is served.                                                  *)
(***************************************************************************)
demoPlayers ==
    << [id |-> 1, name |-> "Rajiv Sharma", batch |-> "Morning Batch", status |-> "improving"],
       [id |-> 2, name |-> "Priya Patel", batch |-> "Evening Batch", status |-> "stable"],
       [id |-> 3, name |-> "Arjun Singh", batch |-> "Weekend Batch", status |-> "improving"],
       [id |-> 4, name |-> "Meera Reddy", batch |-> "Morning Batch", status |-> "needs focus"] >>

demoAssessments ==
    << [id |-> 1, playerId |-> 1, weekStart |-> 17, weekEnd |-> 23, notes |-> "n2", isLatest |-> FALSE],
       [id |-> 2, playerId |-> 1, weekStart |-> 10, weekEnd |-> 16, notes |-> "n3", isLatest |-> FALSE],
       [id |-> 3, playerId |-> 1, weekStart |-> 3, weekEnd |-> 9, notes |-> "n4", isLatest |-> FALSE],
       [id |-> 4, playerId |-> 1, weekStart |-> 24, weekEnd |-> 30, notes |-> "n1", isLatest |-> TRUE] >>

demoMetrics ==
    << [id |-> 1, assessmentId |-> 1, metricType |-> "reaction_time", rating |-> 90],
       [id |-> 2, assessmentId |-> 1, metricType |-> "bat_connect", rating |-> 75],
       [id |-> 3, assessmentId |-> 1, metricType |-> "shot_selection", rating |-> 65],
       [id |-> 4, assessmentId |-> 1, metricType |-> "footwork", rating |-> 70],
       [id |-> 5, assessmentId |-> 1, metricType |-> "cover_drive", rating |-> 55],
       [id |-> 6, assessmentId |-> 1, metricType |-> "straight_drive", rating |-> 75] >>

demoVideos ==
    << [id |-> 1, playerId |-> 1, shotType |-> "Cover Drive", ballSpeed |-> "Medium", batConnect |-> "Middle"],
       [id |-> 2, playerId |-> 1, shotType |-> "Straight Drive", ballSpeed |-> "Fast", batConnect |-> "Edge"],
       [id |-> 3, playerId |-> 1, shotType |-> "Pull Shot", ballSpeed |-> "Fast", batConnect |-> "Missed"],
       [id |-> 4, playerId |-> 1, shotType |-> "Defensive Block", ballSpeed |-> "Medium", batConnect |-> "Middle"] >>

demoProblemAreas ==
    << [id |-> 1, assessmentId |-> 1, areaType |-> "bat_connect", rating |-> 3],
       [id |-> 2, assessmentId |-> 1, areaType |-> "foot_movement", rating |-> 2],
       [id |-> 3, assessmentId |-> 1, areaType |-> "bat_swing", rating |-> 4],
       [id |-> 4, assessmentId |-> 1, areaType |-> "weight_shifting", rating |-> 1] >>

StoreInit ==
    /\ players = demoPlayers
    /\ assessments = demoAssessments
    /\ metrics = demoMetrics
    /\ videos = demoVideos
    /\ problemAreas = demoProblemAreas
    /\ playerCurrentId = Len(demoPlayers) + 1
    /\ assessmentCurrentId = Len(demoAssessments) + 1
    /\ metricCurrentId = Len(demoMetrics) + 1
    /\ videoCurrentId = Len(demoVideos) + 1
    /\ problemAreaCurrentId = Len(demoProblemAreas) + 1
    /\ pending = << >>
    /\ last = [op |-> "constructor"]

NoChart ==
    /\ propAssessments = << >>
    /\ propMetrics = << >>
    /\ weeklyData = << >>

Init == StoreInit /\ NoChart

(***************************************************************************)
(* MemStorage: the writes.  Each is the whole method; createAssessment is  *)
(* split at its one await.                                                 *)
(***************************************************************************)
createPlayer(insertPlayer) ==
    LET id == playerCurrentId
        player == [id |-> id, name |-> insertPlayer.name,
                   batch |-> insertPlayer.batch, status |-> insertPlayer.status]
    IN  /\ playerCurrentId' = playerCurrentId + 1
        /\ players' = MapSet(players, id, player)
        /\ last' = [op |-> "createPlayer", result |-> player]
        /\ UNCHANGED <<assessments, metrics, videos, problemAreas, assessmentCurrentId,
                       metricCurrentId, videoCurrentId, problemAreaCurrentId, pending>>

\* { ...existingPlayer, ...playerUpdate }: a field of playerUpdate wins.
Merge(existing, update) ==
    [f \in DOMAIN existing \cup DOMAIN update |->
        IF f \in DOMAIN update THEN update[f] ELSE existing[f]]

\* Mutant: the spread is written the other way round, { ...playerUpdate,
\* ...existingPlayer }, and a field of the existing player wins.
updatePlayer_ExistingWins(id, playerUpdate) ==
    LET existingPlayer == MapGet(players, id)
        updatedPlayer == Merge(playerUpdate, existingPlayer)
    IN  /\ IF ~MapHas(players, id)
           THEN /\ last' = [op |-> "updatePlayer", id |-> id, playerUpdate |-> playerUpdate,
                            result |-> undefined]
                /\ UNCHANGED players
           ELSE /\ players' = MapSet(players, id, updatedPlayer)
                /\ last' = [op |-> "updatePlayer", id |-> id, playerUpdate |-> playerUpdate,
                            result |-> updatedPlayer]
        /\ UNCHANGED <<assessments, metrics, videos, problemAreas, playerCurrentId,
                       assessmentCurrentId, metricCurrentId, videoCurrentId,
                       problemAreaCurrentId, pending>>

\* Mutant: an id that is not stored is not looked for, and the update is
\* stored under it.
updatePlayer_Upsert(id, playerUpdate) ==
    LET updatedPlayer ==
            IF MapHas(players, id) THEN Merge(MapGet(players, id), playerUpdate)
            ELSE Merge([id |-> id], playerUpdate)
    IN  /\ players' = MapSet(players, id, updatedPlayer)
        /\ last' = [op |-> "updatePlayer", id |-> id, playerUpdate |-> playerUpdate,
                    result |-> updatedPlayer]
        /\ UNCHANGED <<assessments, metrics, videos, problemAreas, playerCurrentId,
                       assessmentCurrentId, metricCurrentId, videoCurrentId,
                       problemAreaCurrentId, pending>>

updatePlayer(id, playerUpdate) ==
    LET existingPlayer == MapGet(players, id)
        updatedPlayer == Merge(existingPlayer, playerUpdate)
    IN  /\ IF ~MapHas(players, id)
           THEN /\ last' = [op |-> "updatePlayer", id |-> id, playerUpdate |-> playerUpdate,
                            result |-> undefined]
                /\ UNCHANGED players
           ELSE /\ players' = MapSet(players, id, updatedPlayer)
                /\ last' = [op |-> "updatePlayer", id |-> id, playerUpdate |-> playerUpdate,
                            result |-> updatedPlayer]
        /\ UNCHANGED <<assessments, metrics, videos, problemAreas, playerCurrentId,
                       assessmentCurrentId, metricCurrentId, videoCurrentId,
                       problemAreaCurrentId, pending>>

\* Mutant: the loop demotes nothing.
DemoteLatest_Skip(m, playerAssessments) == m

\* Mutant: the loop stops after the first assessment it demotes.
RECURSIVE DemoteLatest_FirstOnly(_, _)
DemoteLatest_FirstOnly(m, playerAssessments) ==
    IF playerAssessments = << >> THEN m
    ELSE LET assessment == Head(playerAssessments)
         IN  IF assessment.isLatest
             THEN MapSet(m, assessment.id, [assessment EXCEPT !.isLatest = FALSE])
             ELSE DemoteLatest_FirstOnly(m, Tail(playerAssessments))

\* Mutant: the loop runs over the assessments of all players.
DemoteLatest_AllPlayers(m, playerAssessments) ==
    [i \in 1..Len(m) |-> [m[i] EXCEPT !.isLatest = FALSE]]

\* Mutant: the new latest assessment replaces the old one, which is removed
\* from the map.
DemoteLatest_Delete(m, playerAssessments) ==
    SelectSeq(m, LAMBDA a : ~\E i \in 1..Len(playerAssessments) :
                               /\ playerAssessments[i].id = a.id
                               /\ playerAssessments[i].isLatest)

\* The loop over the scanned playerAssessments: every one it read as latest
\* is stored again, as scanned, with isLatest false.
RECURSIVE DemoteLatest(_, _)
DemoteLatest(m, playerAssessments) ==
    IF playerAssessments = << >> THEN m
    ELSE LET assessment == Head(playerAssessments)
         IN  DemoteLatest(IF assessment.isLatest
                          THEN MapSet(m, assessment.id, [assessment EXCEPT !.isLatest = FALSE])
                          ELSE m,
                          Tail(playerAssessments))

\* The ids the loop stores again.
Demoted(playerAssessments) ==
    {playerAssessments[i].id : i \in {j \in 1..Len(playerAssessments) :
                                         playerAssessments[j].isLatest}}

\* Mutant: the counter is read but not incremented.
InsertAssessment_NoIncrement(m, insertAssessment, demoted) ==
    LET id == assessmentCurrentId
        assessment == [id |-> id, playerId |-> insertAssessment.playerId,
                       weekStart |-> insertAssessment.weekStart,
                       weekEnd |-> insertAssessment.weekEnd,
                       notes |-> insertAssessment.notes,
                       isLatest |-> insertAssessment.isLatest]
    IN  /\ assessmentCurrentId' = assessmentCurrentId
        /\ assessments' = MapSet(m, id, assessment)
        /\ last' = [op |-> "createAssessment", result |-> assessment, demoted |-> demoted]

\* Mutant: the new assessment is stored before the loop runs over a scan
\* that holds it, so it is stored demoted.
InsertAssessment_BeforeLoop(m, insertAssessment, demoted) ==
    LET id == assessmentCurrentId
        assessment == [id |-> id, playerId |-> insertAssessment.playerId,
                       weekStart |-> insertAssessment.weekStart,
                       weekEnd |-> insertAssessment.weekEnd,
                       notes |-> insertAssessment.notes,
                       isLatest |-> insertAssessment.isLatest]
    IN  /\ assessmentCurrentId' = assessmentCurrentId + 1
        /\ assessments' = MapSet(m, id, [assessment EXCEPT !.isLatest = FALSE])
        /\ last' = [op |-> "createAssessment", result |-> assessment, demoted |-> demoted]

\* const id = this.assessmentCurrentId++; ...; this.assessments.set(id, assessment)
InsertAssessment(m, insertAssessment, demoted) ==
    LET id == assessmentCurrentId
        assessment == [id |-> id, playerId |-> insertAssessment.playerId,
                       weekStart |-> insertAssessment.weekStart,
                       weekEnd |-> insertAssessment.weekEnd,
                       notes |-> insertAssessment.notes,
                       isLatest |-> insertAssessment.isLatest]
    IN  /\ assessmentCurrentId' = assessmentCurrentId + 1
        /\ assessments' = MapSet(m, id, assessment)
        /\ last' = [op |-> "createAssessment", result |-> assessment, demoted |-> demoted]

\* Mutant: the scan and the loop are not guarded by insertAssessment.isLatest.
createAssessment_AlwaysDemote(insertAssessment) ==
    /\ pending' = Append(pending,
            [insertAssessment |-> insertAssessment,
             playerAssessments |-> getPlayerAssessments(insertAssessment.playerId)])
    /\ last' = [op |-> "createAssessment.await"]
    /\ UNCHANGED <<assessments, assessmentCurrentId>>
    /\ UNCHANGED <<players, metrics, videos, problemAreas, playerCurrentId,
                   metricCurrentId, videoCurrentId, problemAreaCurrentId>>

\* createAssessment up to its await (isLatest: the scan is taken, the rest
\* waits), or to its end (no await is reached).
createAssessment(insertAssessment) ==
    /\ IF insertAssessment.isLatest
       THEN /\ pending' = Append(pending,
                    [insertAssessment |-> insertAssessment,
                     playerAssessments |-> getPlayerAssessments(insertAssessment.playerId)])
            /\ last' = [op |-> "createAssessment.await"]
            /\ UNCHANGED <<assessments, assessmentCurrentId>>
       ELSE /\ InsertAssessment(assessments, insertAssessment, {})
            /\ UNCHANGED pending
    /\ UNCHANGED <<players, metrics, videos, problemAreas, playerCurrentId,
                   metricCurrentId, videoCurrentId, problemAreaCurrentId>>

\* The oldest suspended createAssessment goes on after its await.
createAssessmentResume ==
    /\ pending # << >>
    /\ LET call == Head(pending)
       IN  InsertAssessment(DemoteLatest(assessments, call.playerAssessments),
                            call.insertAssessment, Demoted(call.playerAssessments))
    /\ pending' = Tail(pending)
    /\ UNCHANGED <<players, metrics, videos, problemAreas, playerCurrentId,
                   metricCurrentId, videoCurrentId, problemAreaCurrentId>>

createMetric(insertMetric) ==
    LET id == metricCurrentId
        metric == [id |-> id, assessmentId |-> insertMetric.assessmentId,
                   metricType |-> insertMetric.metricType, rating |-> insertMetric.rating]
    IN  /\ metricCurrentId' = metricCurrentId + 1
        /\ metrics' = MapSet(metrics, id, metric)
        /\ last' = [op |-> "createMetric", result |-> metric]
        /\ UNCHANGED <<players, assessments, videos, problemAreas, playerCurrentId,
                       assessmentCurrentId, videoCurrentId, problemAreaCurrentId, pending>>

createVideo(insertVideo) ==
    LET id == videoCurrentId
        video == [id |-> id, playerId |-> insertVideo.playerId,
                  shotType |-> insertVideo.shotType, ballSpeed |-> insertVideo.ballSpeed,
                  batConnect |-> insertVideo.batConnect]
    IN  /\ videoCurrentId' = videoCurrentId + 1
        /\ videos' = MapSet(videos, id, video)
        /\ last' = [op |-> "createVideo", result |-> video]
        /\ UNCHANGED <<players, assessments, metrics, problemAreas, playerCurrentId,
                       assessmentCurrentId, metricCurrentId, problemAreaCurrentId, pending>>

createProblemArea(insertProblemArea) ==
    LET id == problemAreaCurrentId
        problemArea == [id |-> id, assessmentId |-> insertProblemArea.assessmentId,
                        areaType |-> insertProblemArea.areaType,
                        rating |-> insertProblemArea.rating]
    IN  /\ problemAreaCurrentId' = problemAreaCurrentId + 1
        /\ problemAreas' = MapSet(problemAreas, id, problemArea)
        /\ last' = [op |-> "createProblemArea", result |-> problemArea]
        /\ UNCHANGED <<players, assessments, metrics, videos, playerCurrentId,
                       assessmentCurrentId, metricCurrentId, videoCurrentId, pending>>

(***************************************************************************)
(* The routes that write.  A path parameter goes through parseInt; the     *)
(* body through the insert schema, which throws a ZodError on a body that  *)
(* is not well formed.                                                     *)
(***************************************************************************)
NaN == -1

parseInt(param) ==
    CASE param = "1" -> 1
      [] param = "2" -> 2
      [] param = "9" -> 9
      [] param = "1abc" -> 1
      [] OTHER -> NaN

isNaN(n) == n = NaN

Respond400(route) ==
    /\ last' = [op |-> route, status |-> 400]
    /\ UNCHANGED <<storeVars, pending>>

PostPlayerAssessment(param, body) ==
    LET playerId == parseInt(param)
    IN  IF isNaN(playerId) \/ ~body.wellFormed
        THEN Respond400("POST /api/players/:id/assessments")
        ELSE createAssessment([playerId |-> playerId, weekStart |-> body.weekStart,
                               weekEnd |-> body.weekEnd, notes |-> body.notes,
                               isLatest |-> body.isLatest])

\* Mutant: the metric is stored before the body is validated.
PostAssessmentMetric_StoreFirst(param, body) ==
    LET assessmentId == parseInt(param)
    IN  IF isNaN(assessmentId)
        THEN Respond400("POST /api/assessments/:id/metrics")
        ELSE /\ metricCurrentId' = metricCurrentId + 1
             /\ metrics' = MapSet(metrics, metricCurrentId,
                                  [id |-> metricCurrentId, assessmentId |-> assessmentId,
                                   metricType |-> body.metricType, rating |-> body.rating])
             /\ last' = IF body.wellFormed
                        THEN [op |-> "createMetric", result |-> MapGet(metrics', metricCurrentId)]
                        ELSE [op |-> "POST /api/assessments/:id/metrics", status |-> 400]
             /\ UNCHANGED <<players, assessments, videos, problemAreas, playerCurrentId,
                            assessmentCurrentId, videoCurrentId, problemAreaCurrentId,
                            pending>>

PostAssessmentMetric(param, body) ==
    LET assessmentId == parseInt(param)
    IN  IF isNaN(assessmentId) \/ ~body.wellFormed
        THEN Respond400("POST /api/assessments/:id/metrics")
        ELSE createMetric([assessmentId |-> assessmentId, metricType |-> body.metricType,
                           rating |-> body.rating])

PostAssessmentProblemArea(param, body) ==
    LET assessmentId == parseInt(param)
    IN  IF isNaN(assessmentId) \/ ~body.wellFormed
        THEN Respond400("POST /api/assessments/:id/problem-areas")
        ELSE createProblemArea([assessmentId |-> assessmentId, areaType |-> body.areaType,
                                rating |-> body.rating])

PostPlayerVideo(param, body) ==
    LET playerId == parseInt(param)
    IN  IF isNaN(playerId) \/ ~body.wellFormed
        THEN Respond400("POST /api/players/:id/videos")
        ELSE createVideo([playerId |-> playerId, shotType |-> body.shotType,
                          ballSpeed |-> body.ballSpeed, batConnect |-> body.batConnect])

(***************************************************************************)
(* The requests and calls the store is driven with.                        *)
(***************************************************************************)
\* Path parameters: three numbers (no player and no assessment has id 9) and
\* one that parseInt answers NaN for.
PathParams == {"1", "2", "9", "abc"}

\* Parent ids a direct caller names: stored ones and one that is not.
ParentIds == {1, 2, 9}

\* Weeks of new assessments: one the demo data has, and a later one.
WeekStarts == {10, 31}

AssessmentBodiesOf(weeks) ==
    {[weekStart |-> w, weekEnd |-> w + 6, notes |-> "n5", isLatest |-> l, wellFormed |-> ok] :
        w \in weeks, l \in BOOLEAN, ok \in BOOLEAN}

InsertAssessmentsOf(weeks) ==
    {[playerId |-> p, weekStart |-> w, weekEnd |-> w + 6, notes |-> "n5", isLatest |-> l] :
        p \in ParentIds, w \in weeks, l \in BOOLEAN}

MetricBodies ==
    {[metricType |-> "bat_connect", rating |-> 4, wellFormed |-> ok] : ok \in BOOLEAN}

InsertMetrics ==
    {[assessmentId |-> a, metricType |-> "bat_connect", rating |-> 4] : a \in ParentIds}

ProblemAreaBodies ==
    {[areaType |-> "bat_swing", rating |-> 2, wellFormed |-> ok] : ok \in BOOLEAN}

InsertProblemAreas ==
    {[assessmentId |-> a, areaType |-> "bat_swing", rating |-> 2] : a \in ParentIds}

VideoBodies ==
    {[shotType |-> "Pull Shot", ballSpeed |-> "Slow", batConnect |-> NULL, wellFormed |-> ok] :
        ok \in BOOLEAN}

InsertVideos ==
    {[playerId |-> p, shotType |-> "Pull Shot", ballSpeed |-> "Slow", batConnect |-> NULL] :
        p \in ParentIds}

InsertPlayers ==
    {[name |-> "Kiran Rao", batch |-> "Weekend Batch", status |-> NULL]}

PlayerUpdates == {[status |-> "stable", batch |-> "Evening Batch"]}

\* The creates made or under way since construction; the model stops
\* creating at its bound.
Creates ==
    (Len(players) - Len(demoPlayers)) + (Len(assessments) - Len(demoAssessments))
    + (Len(metrics) - Len(demoMetrics)) + (Len(videos) - Len(demoVideos))
    + (Len(problemAreas) - Len(demoProblemAreas)) + Len(pending)

Room == Creates < MaxCreates

\* A caller starts an operation.
Calls ==
    \/ \E p \in InsertPlayers : Room /\ createPlayer(p) /\ UNCHANGED chartVars
    \/ \E id \in {1, 9}, u \in PlayerUpdates : updatePlayer(id, u) /\ UNCHANGED chartVars
    \/ \E a \in InsertAssessmentsOf({31}) : Room /\ createAssessment(a) /\ UNCHANGED chartVars
    \/ \E m \in InsertMetrics : Room /\ createMetric(m) /\ UNCHANGED chartVars
    \/ \E v \in InsertVideos : Room /\ createVideo(v) /\ UNCHANGED chartVars
    \/ \E a \in InsertProblemAreas : Room /\ createProblemArea(a) /\ UNCHANGED chartVars
    \/ \E param \in PathParams, body \in AssessmentBodiesOf({31}) :
          Room /\ PostPlayerAssessment(param, body) /\ UNCHANGED chartVars
    \/ \E param \in PathParams, body \in MetricBodies :
          Room /\ PostAssessmentMetric(param, body) /\ UNCHANGED chartVars
    \/ \E param \in PathParams, body \in ProblemAreaBodies :
          Room /\ PostAssessmentProblemArea(param, body) /\ UNCHANGED chartVars
    \/ \E param \in PathParams, body \in VideoBodies :
          Room /\ PostPlayerVideo(param, body) /\ UNCHANGED chartVars

\* A suspended createAssessment goes on.
Resume == createAssessmentResume /\ UNCHANGED chartVars

\* Callers may start operations while createAssessment calls are suspended
\* (as initDemoData does).
Next == Calls \/ Resume

Spec == Init /\ [][Next]_vars

\* Operations run one after another: nothing starts while a call is suspended.
SeqNext ==
    \/ pending = << >> /\ Calls
    \/ Resume

SeqSpec == Init /\ [][SeqNext]_vars

\* createAssessment alone, with more weeks to choose from.
AssessNext ==
    \/ \E a \in InsertAssessmentsOf(WeekStarts) :
          Room /\ createAssessment(a) /\ UNCHANGED chartVars
    \/ \E param \in PathParams, body \in AssessmentBodiesOf(WeekStarts) :
          Room /\ PostPlayerAssessment(param, body) /\ UNCHANGED chartVars
    \/ Resume

AssessSpec == Init /\ [][AssessNext]_vars

(***************************************************************************)
(* The latest-assessment flag.                                             *)
(***************************************************************************)
\* The ids of the assessments of playerId in map m that are flagged isLatest.
LatestIds(m, playerId) ==
    {m[i].id : i \in {j \in 1..Len(m) : m[j].playerId = playerId /\ m[j].isLatest}}

PlayerIdsIn(m) == {m[i].playerId : i \in 1..Len(m)}

AtMostOneLatest ==
    \A p \in PlayerIdsIn(assessments) : Cardinality(LatestIds(assessments, p)) <= 1

\* C1: when operations run one after another, then after any sequence of
\* them every player has at most one stored assessment with isLatest = true.
C1_AtMostOneLatestSequential == pending = << >> => AtMostOneLatest

\* C1 witness: a second createAssessment(isLatest) for a player has returned:
\* it demoted an assessment that an earlier call of the run had created as
\* latest, the demo one is demoted too, and other records were created.
C1_Witness ==
    /\ pending = << >>
    /\ last.op = "createAssessment"
    /\ last.result.isLatest
    /\ \E d \in last.demoted : d > Len(demoAssessments)
    /\ ~MapGet(assessments, 4).isLatest
    /\ LatestIds(assessments, last.result.playerId) = {last.result.id}

\* C2: a createAssessment(isLatest = true) for player P that nothing
\* interleaves with (P's assessments are as it scanned them) leaves exactly
\* one assessment of P flagged, the new one, whatever was flagged before.
C2_CreateLatestRepairs ==
    [][(/\ pending # << >>
        /\ pending' = Tail(pending)
        /\ Head(pending).playerAssessments
              = getPlayerAssessments(Head(pending).insertAssessment.playerId))
       => LatestIds(assessments', Head(pending).insertAssessment.playerId)
              = {assessmentCurrentId}]_vars

\* C2 witness: a createAssessment(isLatest) has returned that found two or
\* more assessments of its player flagged and left only the new one flagged.
C2_Witness ==
    /\ pending = << >>
    /\ last.op = "createAssessment"
    /\ last.result.isLatest
    /\ Cardinality(last.demoted) >= 2
    /\ LatestIds(assessments, last.result.playerId) = {last.result.id}

\* C3: after createAssessment(isLatest = true) calls for one player that
\* were in flight together have all completed, the player has at most one
\* assessment flagged isLatest.
C3_AtMostOneLatestAfterConcurrentCreates ==
    (pending = << >> /\ last.op = "createAssessment" /\ last.result.isLatest)
        => Cardinality(LatestIds(assessments, last.result.playerId)) <= 1

(***************************************************************************)
(* Referential integrity.                                                  *)
(***************************************************************************)
ReferentialIntegrity ==
    /\ \A i \in 1..Len(metrics) : MapHas(assessments, metrics[i].assessmentId)
    /\ \A i \in 1..Len(problemAreas) : MapHas(assessments, problemAreas[i].assessmentId)
    /\ \A i \in 1..Len(assessments) : MapHas(players, assessments[i].playerId)
    /\ \A i \in 1..Len(videos) : MapHas(players, videos[i].playerId)

\* C4: in every reachable state every metric and problem area names a
\* stored assessment and every assessment and video names a stored player
\* (a create that names a missing parent stores nothing).
C4_ReferentialIntegrity == ReferentialIntegrity

(***************************************************************************)
(* PerformanceChart: chartData.  An object is a function from its keys; a  *)
(* score is in tenths.                                                     *)
(***************************************************************************)
metricNames ==
    [reaction_time |-> "Reaction Time", bat_connect |-> "Bat Connect",
     shot_selection |-> "Shot Selection", footwork |-> "Footwork",
     cover_drive |-> "Cover Drive", straight_drive |-> "Straight Drive"]

\* format(date, "MMM d"), of a day of July.
FormatMMMd(day) == <<"Jul", day>>

\* Mutant: the comparator is reversed (newest first).
RECURSIVE InsertByWeekStart_Descending(_, _)
InsertByWeekStart_Descending(sorted, a) ==
    IF sorted = << >> THEN <<a>>
    ELSE IF Head(sorted).weekStart >= a.weekStart
         THEN <<Head(sorted)>> \o InsertByWeekStart_Descending(Tail(sorted), a)
         ELSE <<a>> \o sorted

\* Mutant: an element goes before the elements of its own weekStart.
RECURSIVE InsertByWeekStart_Unstable(_, _)
InsertByWeekStart_Unstable(sorted, a) ==
    IF sorted = << >> THEN <<a>>
    ELSE IF Head(sorted).weekStart < a.weekStart
         THEN <<Head(sorted)>> \o InsertByWeekStart_Unstable(Tail(sorted), a)
         ELSE <<a>> \o sorted

\* Array.prototype.sort is stable: an element goes after every element that
\* does not compare greater (a.weekStart - b.weekStart <= 0).
RECURSIVE InsertByWeekStart(_, _)
InsertByWeekStart(sorted, a) ==
    IF sorted = << >> THEN <<a>>
    ELSE IF Head(sorted).weekStart <= a.weekStart
         THEN <<Head(sorted)>> \o InsertByWeekStart(Tail(sorted), a)
         ELSE <<a>> \o sorted

\* [...assessments].sort((a, b) => a.weekStart - b.weekStart)
RECURSIVE SortAssessments(_)
SortAssessments(list) ==
    IF list = << >> THEN << >>
    ELSE InsertByWeekStart(SortAssessments(SubSeq(list, 1, Len(list) - 1)), list[Len(list)])

\* metricsByType[metricType]: the ratings of the assessment's metrics of
\* that type, in the order of the metrics prop.
RatingsOf(chartMetrics, assessmentId, metricType) ==
    LET of == SelectSeq(chartMetrics,
                        LAMBDA m : m.assessmentId = assessmentId /\ m.metricType = metricType)
    IN  [i \in 1..Len(of) |-> of[i].rating]

\* Object.keys(metricsByType)
TypesOf(chartMetrics, assessmentId) ==
    {chartMetrics[i].metricType :
        i \in {j \in 1..Len(chartMetrics) : chartMetrics[j].assessmentId = assessmentId}}

RECURSIVE Sum(_)
Sum(ratings) == IF ratings = << >> THEN 0 ELSE Head(ratings) + Sum(Tail(ratings))

\* Math.round(average * 10) / 10 with average = sum / ratings.length, in
\* tenths: Math.round rounds halves up.
Average10(ratings) == (20 * Sum(ratings) + Len(ratings)) \div (2 * Len(ratings))

\* obj[key] = value
Assign(obj, key, value) ==
    [k \in DOMAIN obj \cup {key} |-> IF k = key THEN value ELSE obj[k]]

\* !obj[key]: the key is not set, or its number is 0.
Falsy(obj, key) == key \notin DOMAIN obj \/ obj[key] = 0

\* The data point after the loop over Object.entries(metricsByType).
RECURSIVE WithAverages(_, _, _, _)
WithAverages(dataPoint, types, chartMetrics, assessmentId) ==
    IF types = {} THEN dataPoint
    ELSE LET metricType == CHOOSE t \in types : TRUE
         IN  WithAverages(Assign(dataPoint, metricType,
                                 Average10(RatingsOf(chartMetrics, assessmentId, metricType))),
                          types \ {metricType}, chartMetrics, assessmentId)

\* metrics.find(m => m.metricType === metricType)?.rating || 3
LatestValue(chartMetrics, metricType) ==
    LET found == SelectSeq(chartMetrics, LAMBDA m : m.metricType = metricType)
    IN  IF found = << >> \/ found[1].rating = 0 THEN 3 ELSE found[1].rating

Max(a, b) == IF a >= b THEN a ELSE b
Min(a, b) == IF a <= b THEN a ELSE b

\* Mutant: the estimate is not brought into the 1-5 range.
EstimatedRating_NoClamp(latestValue, index, length) ==
    1 + ((length + index) * (latestValue - 1)) \div (2 * length)

\* Math.max(1, Math.min(5, estimatedRating)), where estimatedRating is
\* 1 + Math.floor(progressionFactor * (latestValue - 1)) in each of the three
\* branches (latestValue - 1 is 2 in the middle one) and progressionFactor is
\* 0.5 + index * 0.5 / length = (length + index) / (2 * length).
EstimatedRating(latestValue, index, length) ==
    Max(1, Min(5, 1 + ((length + index) * (latestValue - 1)) \div (2 * length)))

\* if (index < sortedAssessments.length - 1), index counted from 0.
EstimatesWeek(index, length) == index < length - 1

\* The data point after the loop over Object.entries(metricNames).
RECURSIVE WithEstimates(_, _, _, _, _)
WithEstimates(dataPoint, names, chartMetrics, index, length) ==
    IF names = {} THEN dataPoint
    ELSE LET metricType == CHOOSE t \in names : TRUE
             next == IF Falsy(dataPoint, metricType)
                     THEN Assign(dataPoint, metricType,
                                 10 * EstimatedRating(LatestValue(chartMetrics, metricType),
                                                      index, length))
                     ELSE dataPoint
         IN  WithEstimates(next, names \ {metricType}, chartMetrics, index, length)

\* The body of sortedAssessments.forEach((assessment, index) => ...), index
\* counted from 0.
DataPoint(assessment, index, length, chartMetrics) ==
    LET named == [name |-> <<"Week", index + 1>>, week |-> FormatMMMd(assessment.weekStart)]
        averaged == WithAverages(named, TypesOf(chartMetrics, assessment.id),
                                 chartMetrics, assessment.id)
    IN  IF EstimatesWeek(index, length)
        THEN WithEstimates(averaged, DOMAIN metricNames, chartMetrics, index, length)
        ELSE averaged

\* Mutant: the assessments prop itself is sorted, not a copy of it.
chartData_SortInPlace(chartAssessments, chartMetrics) ==
    LET sortedAssessments == SortAssessments(chartAssessments)
    IN  [weeklyData |-> [i \in 1..Len(sortedAssessments) |->
                            DataPoint(sortedAssessments[i], i - 1, Len(sortedAssessments),
                                      chartMetrics)],
         assessments |-> sortedAssessments,
         metrics |-> chartMetrics]

\* Names that the empty object literal metricsByType = {} answers with a
\* member of Object.prototype (some of them).
ObjectPrototypeKeys == {"constructor", "toString", "valueOf", "hasOwnProperty", "__proto__"}

\* if (!metricsByType[metric.metricType]) ... = []; then .push(metric.rating):
\* for a name of Object.prototype the test finds the inherited member, no
\* array is set, and push is not a function: a TypeError leaves chartData.
chartDataThrows(chartAssessments, chartMetrics) ==
    \E i \in 1..Len(chartAssessments), j \in 1..Len(chartMetrics) :
        /\ chartMetrics[j].assessmentId = chartAssessments[i].id
        /\ chartMetrics[j].metricType \in ObjectPrototypeKeys

\* chartData: what it returns, and the two props as it leaves them (it
\* sorts a copy and only reads the metrics).
chartData(chartAssessments, chartMetrics) ==
    LET sortedAssessments == SortAssessments(chartAssessments)
    IN  [weeklyData |-> [i \in 1..Len(sortedAssessments) |->
                            DataPoint(sortedAssessments[i], i - 1, Len(sortedAssessments),
                                      chartMetrics)],
         assessments |-> chartAssessments,
         metrics |-> chartMetrics]

\* The component renders: chartData runs on the props.
Render ==
    /\ IF chartDataThrows(propAssessments, propMetrics)
       THEN /\ last' = [op |-> "chartData.TypeError"]
            /\ UNCHANGED <<weeklyData, propAssessments, propMetrics>>
       ELSE /\ LET run == chartData(propAssessments, propMetrics)
               IN  /\ weeklyData' = run.weeklyData
                   /\ propAssessments' = run.assessments
                   /\ propMetrics' = run.metrics
            /\ last' = [op |-> "chartData"]
    /\ UNCHANGED <<storeVars, pending>>

(***************************************************************************)
(* The props the chart is handed: a player's assessments as the store      *)
(* lists them (ascending id), with any weeks, and metrics of any of them.  *)
(***************************************************************************)
ChartWeeks == {3, 10}
ChartMetricTypes == {"bat_connect", "spin_defence"}
ChartRatings == {0, 4}

SeqsUpTo(S, n) == UNION {[1..k -> S] : k \in 0..n}

AssessmentProps ==
    {[i \in 1..Len(weeks) |-> [id |-> i, playerId |-> 1, weekStart |-> weeks[i]]] :
        weeks \in SeqsUpTo(ChartWeeks, MaxChartAssessments)}

MetricProps ==
    {[i \in 1..Len(ms) |-> [id |-> i, assessmentId |-> ms[i][1], metricType |-> ms[i][2],
                            rating |-> ms[i][3]]] :
        ms \in SeqsUpTo((1..MaxChartAssessments) \X ChartMetricTypes \X ChartRatings,
                        MaxChartMetrics)}

ChartInit ==
    /\ StoreInit
    /\ propAssessments \in AssessmentProps
    /\ propMetrics \in MetricProps
    /\ weeklyData = << >>

ChartNext == Render

ChartSpec == ChartInit /\ [][ChartNext]_vars

(***************************************************************************)
(* The weekly series.                                                      *)
(***************************************************************************)
Rendered == last.op = "chartData"

\* The keys of a data point that hold a value of a metric type.
ValueKeys(dataPoint) == DOMAIN dataPoint \ {"name", "week"}

\* The entry of the series that renders the assessment listed i-th: the
\* assessments of an earlier week come before it, and so do those of its own
\* week that are listed before it.
Rank(list, i) ==
    1 + Cardinality({j \in 1..Len(list) :
                        \/ list[j].weekStart < list[i].weekStart
                        \/ list[j].weekStart = list[i].weekStart /\ j < i})

\* The assessment the k-th entry of the series renders.
AssessmentOfEntry(k) ==
    propAssessments[CHOOSE i \in 1..Len(propAssessments) : Rank(propAssessments, i) = k]

\* The mean of the ratings to one decimal place, halves up, in tenths: the
\* r with r - 1/2 <= 10 * sum / count < r + 1/2.
RoundedMean10(ratings) ==
    CHOOSE r \in 0..(10 * (Sum(ratings) + 1)) :
        /\ 2 * Len(ratings) * r <= 20 * Sum(ratings) + Len(ratings)
        /\ 20 * Sum(ratings) + Len(ratings) < 2 * Len(ratings) * (r + 1)

\* C5: the series has a value for a (week, metricType) pair only if
\* the assessment of that week has at least one metric of that type.
C5_ValueOnlyIfRated ==
    Rendered =>
        \A k \in 1..Len(weeklyData) : \A t \in ValueKeys(weeklyData[k]) :
            t \in TypesOf(propMetrics, AssessmentOfEntry(k).id)

\* C6: for every assessment and every metric type the assessment has a metric
\* of, the week's score is the mean of exactly those ratings, rounded to one
\* decimal place.
C6_ScoreIsRoundedMean ==
    Rendered =>
        \A k \in 1..Len(weeklyData) :
            \A t \in TypesOf(propMetrics, AssessmentOfEntry(k).id) :
                /\ t \in ValueKeys(weeklyData[k])
                /\ weeklyData[k][t]
                      = RoundedMean10(RatingsOf(propMetrics, AssessmentOfEntry(k).id, t))

\* C7: the series has one entry per assessment, in ascending weekStart order,
\* assessments of one weekStart in the order they were listed; entry k is
\* named Week k.  (Which assessment an entry renders shows in its week label
\* and in the types it holds a value for that are never estimated.)
C7_AscendingStableOrder ==
    Rendered =>
        /\ Len(weeklyData) = Len(propAssessments)
        /\ \A i \in 1..Len(propAssessments) :
              LET k == Rank(propAssessments, i)
              IN  /\ weeklyData[k].name = <<"Week", k>>
                  /\ weeklyData[k].week = FormatMMMd(propAssessments[i].weekStart)
                  /\ \A t \in ChartMetricTypes \ DOMAIN metricNames :
                        t \in ValueKeys(weeklyData[k])
                            <=> t \in TypesOf(propMetrics, propAssessments[i].id)

\* C7 witness: three assessments listed out of order, the first and the third
\* of one week, and only the third has a metric of the type that is never
\* estimated: the series shows it in its last entry.
C7_Witness ==
    /\ Rendered
    /\ Len(propAssessments) = 3
    /\ propAssessments[1].weekStart = propAssessments[3].weekStart
    /\ propAssessments[2].weekStart < propAssessments[1].weekStart
    /\ "spin_defence" \in TypesOf(propMetrics, propAssessments[3].id)
    /\ "spin_defence" \notin TypesOf(propMetrics, propAssessments[1].id)
    /\ "spin_defence" \in ValueKeys(weeklyData[3])
    /\ "spin_defence" \notin ValueKeys(weeklyData[2])

\* C9: a run of chartData changes nothing in the store (records, counters)
\* and leaves the assessments and metrics it was given as they were, content
\* and order.
C9_PureRead ==
    [][last'.op = "chartData"
         => UNCHANGED <<storeVars, pending, propAssessments, propMetrics>>]_vars

\* C9 witness: chartData has run on assessments that were not listed in
\* weekStart order and on some metrics, and they are still as listed.
C9_Witness ==
    /\ Rendered
    /\ Len(propAssessments) >= 2
    /\ propAssessments[1].weekStart > propAssessments[2].weekStart
    /\ propMetrics # << >>
    /\ weeklyData[1].week = FormatMMMd(propAssessments[2].weekStart)

(***************************************************************************)
(* The video filter: videos are created and getFilteredVideos is asked.    *)
(***************************************************************************)
\* Mutant: the query filters the stored list itself, so the videos of the
\* player that do not pass are gone from the store.
GetFilteredVideos_InPlace(playerId, filters) ==
    /\ last' = [op |-> "getFilteredVideos", playerId |-> playerId, filters |-> filters,
                result |-> getFilteredVideos(playerId, filters)]
    /\ videos' = SelectSeq(videos, LAMBDA video :
                     video.playerId = playerId
                         => \E i \in 1..Len(getFilteredVideos(playerId, filters)) :
                                getFilteredVideos(playerId, filters)[i] = video)
    /\ UNCHANGED <<players, assessments, metrics, problemAreas, playerCurrentId,
                   assessmentCurrentId, metricCurrentId, videoCurrentId,
                   problemAreaCurrentId, pending>>

\* The query: it reads and returns.
GetFilteredVideos(playerId, filters) ==
    /\ last' = [op |-> "getFilteredVideos", playerId |-> playerId, filters |-> filters,
                result |-> getFilteredVideos(playerId, filters)]
    /\ UNCHANGED <<storeVars, pending>>

\* Videos with tags that differ from the demo ones in case only, that are
\* the very sentinel strings, or that are null.
TaggedVideos ==
    {[playerId |-> 1, shotType |-> "cover drive", ballSpeed |-> "Medium", batConnect |-> "Middle"],
     [playerId |-> 1, shotType |-> "Cover Drive", ballSpeed |-> NULL, batConnect |-> "Middle"],
     [playerId |-> 1, shotType |-> "All", ballSpeed |-> "Medium", batConnect |-> "All"],
     [playerId |-> 1, shotType |-> "Cover Drive", ballSpeed |-> "Medium", batConnect |-> "Middle"],
     [playerId |-> 2, shotType |-> "Cover Drive", ballSpeed |-> "Medium", batConnect |-> "Middle"]}

VideoFilters ==
    [shotType : {Absent, "", "All Shot Types", "All", "Cover Drive"},
     ballSpeed : {Absent, "All Speeds", "Medium"},
     batConnect : {Absent, "All", "Middle"}]

VideoPlayerIds == {1, 2}

VideoNext ==
    \/ \E v \in TaggedVideos : Room /\ createVideo(v) /\ UNCHANGED chartVars
    \/ \E p \in VideoPlayerIds, f \in VideoFilters :
          GetFilteredVideos(p, f) /\ UNCHANGED chartVars

VideoSpec == Init /\ [][VideoNext]_vars

Range(seq) == {seq[i] : i \in 1..Len(seq)}

\* The per-field sentinel that stands for no criterion.
Wildcard(field) ==
    CASE field = "shotType" -> "All Shot Types"
      [] field = "ballSpeed" -> "All Speeds"
      [] field = "batConnect" -> "All"

FilterFields == {"shotType", "ballSpeed", "batConnect"}

\* C10 as stated: getFilteredVideos returns exactly the videos of the player
\* whose tag equals the criterion in each field whose criterion is present
\* and not the wildcard.
C10_ExactMatchOfPresentCriteria ==
    last.op = "getFilteredVideos" =>
        /\ Range(last.result)
             = {v \in Range(videos) :
                   /\ v.playerId = last.playerId
                   /\ \A field \in FilterFields :
                         (last.filters[field] # Absent /\ last.filters[field] # Wildcard(field))
                             => v[field] = last.filters[field]}
        /\ Cardinality(Range(last.result)) = Len(last.result)

\* C10 as amended: the same for each field whose criterion is present, not
\* the empty string and not the wildcard.
C10_ExactMatchOfNonEmptyCriteria ==
    last.op = "getFilteredVideos" =>
        /\ Range(last.result)
             = {v \in Range(videos) :
                   /\ v.playerId = last.playerId
                   /\ \A field \in FilterFields :
                         (/\ last.filters[field] # Absent
                          /\ last.filters[field] # ""
                          /\ last.filters[field] # Wildcard(field))
                             => v[field] = last.filters[field]}
        /\ Cardinality(Range(last.result)) = Len(last.result)

\* C10 witness: player 1 was asked for Cover Drive at Medium speed in the
\* Middle, with videos stored that differ from a match in the case of a tag,
\* in a null tag and in the player; exactly the demo video 1 came back.
C10_Witness ==
    /\ last.op = "getFilteredVideos"
    /\ last.playerId = 1
    /\ last.filters = [shotType |-> "Cover Drive", ballSpeed |-> "Medium", batConnect |-> "Middle"]
    /\ \E i \in 1..Len(videos) : videos[i].playerId = 1 /\ videos[i].shotType = "cover drive"
    /\ \E i \in 1..Len(videos) : videos[i].playerId = 1 /\ videos[i].ballSpeed = NULL
    /\ \E i \in 1..Len(videos) : videos[i].playerId = 2
    /\ Len(last.result) = 1
    /\ last.result[1].id = 1

\* C11: a criterion that is its field's sentinel is treated as absent: the
\* list returned is the list returned with that field omitted, whatever the
\* other two criteria are.
C11_SentinelIsAbsent ==
    last.op = "getFilteredVideos" =>
        \A field \in FilterFields :
            last.filters[field] = Wildcard(field)
                => last.result = getFilteredVideos(last.playerId,
                                     [last.filters EXCEPT ![field] = Absent])

\* C11 witness: player 1 was asked for 'All Shot Types' at Medium speed in
\* the Middle, and some but not all of the player's videos came back.
C11_Witness ==
    /\ last.op = "getFilteredVideos"
    /\ last.playerId = 1
    /\ last.filters = [shotType |-> "All Shot Types", ballSpeed |-> "Medium",
                       batConnect |-> "Middle"]
    /\ Len(last.result) >= 3
    /\ Len(last.result) < Len(getPlayerVideos(1))
    /\ \E i \in 1..Len(last.result) : last.result[i].shotType = "cover drive"

\* s is t with some elements left out, the others in t's order.
RECURSIVE IsSubsequence(_, _)
IsSubsequence(s, t) ==
    IF s = << >> THEN TRUE
    ELSE IF t = << >> THEN FALSE
    ELSE IF Head(s) = Head(t) THEN IsSubsequence(Tail(s), Tail(t))
    ELSE IsSubsequence(s, Tail(t))

\* C12: the list getFilteredVideos returns is a subsequence of the list
\* getPlayerVideos returns for the player, for every combination of criteria.
C12_FilterKeepsOrder ==
    last.op = "getFilteredVideos" =>
        IsSubsequence(last.result, getPlayerVideos(last.playerId))

\* C12 witness: a filter has returned two or more videos of player 1 and left
\* out one that is listed between two of them.
C12_Witness ==
    /\ last.op = "getFilteredVideos"
    /\ last.playerId = 1
    /\ Len(last.result) >= 2
    /\ LET all == getPlayerVideos(1)
       IN  \E i, j, k \in 1..Len(all) :
              /\ i < j /\ j < k
              /\ all[i] \in Range(last.result)
              /\ all[j] \notin Range(last.result)
              /\ all[k] \in Range(last.result)

NoCriteria == [shotType |-> Absent, ballSpeed |-> Absent, batConnect |-> Absent]

\* C13: a getFilteredVideos call changes nothing in the store; a call that
\* follows a call with the same player and criteria returns the same list;
\* and with no criteria the list is the one getPlayerVideos returns.
C13_RepeatablePureQuery ==
    [][last'.op = "getFilteredVideos" =>
          /\ UNCHANGED <<storeVars, pending>>
          /\ (/\ last.op = "getFilteredVideos"
              /\ last.playerId = last'.playerId
              /\ last.filters = last'.filters) => last'.result = last.result
          /\ last'.filters = NoCriteria
                => last'.result = getPlayerVideos(last'.playerId)]_vars

\* C13 witness: player 1 was asked with no criteria after videos were
\* created for players 1 and 2, and the videos of player 1 came back.
C13_Witness ==
    /\ last.op = "getFilteredVideos"
    /\ last.playerId = 1
    /\ last.filters = NoCriteria
    /\ Len(last.result) >= 5
    /\ Len(last.result) < Len(videos)

\* The store as direct callers drive it: every create, of records with a
\* stored parent, updatePlayer, and the resumption of suspended calls.
DirectNext ==
    \/ \E p \in InsertPlayers : Room /\ createPlayer(p) /\ UNCHANGED chartVars
    \/ \E u \in PlayerUpdates : updatePlayer(1, u) /\ UNCHANGED chartVars
    \/ \E a \in {x \in InsertAssessmentsOf({31}) : x.playerId \in {1, 2}} :
          Room /\ createAssessment(a) /\ UNCHANGED chartVars
    \/ \E m \in {x \in InsertMetrics : x.assessmentId = 1} :
          Room /\ createMetric(m) /\ UNCHANGED chartVars
    \/ \E v \in {x \in InsertVideos : x.playerId = 1} :
          Room /\ createVideo(v) /\ UNCHANGED chartVars
    \/ \E a \in {x \in InsertProblemAreas : x.assessmentId = 1} :
          Room /\ createProblemArea(a) /\ UNCHANGED chartVars
    \/ Resume

DirectSpec == Init /\ [][DirectNext]_vars

\* The create that returned result turned the collection before into after:
\* the id is greater than every id stored before, the record is added at the
\* end, and the records stored before are still there under their ids.
FreshCreate(before, after, result) ==
    /\ \A i \in 1..Len(before) : before[i].id < result.id
    /\ Len(after) = Len(before) + 1
    /\ after[Len(after)] = result
    /\ \A i \in 1..Len(before) : after[i].id = before[i].id

UniqueIds(m) == \A i, j \in 1..Len(m) : m[i].id = m[j].id => i = j

\* C14: every create returns an id greater than every id an earlier create of
\* the kind returned (all of them are stored), also when creates interleave
\* at their awaits; no two records of a kind share an id and no create
\* overwrites a record.
C14_FreshIncreasingIds ==
    [][/\ last'.op = "createPlayer" => FreshCreate(players, players', last'.result)
       /\ last'.op = "createAssessment"
             => FreshCreate(assessments, assessments', last'.result)
       /\ last'.op = "createMetric" => FreshCreate(metrics, metrics', last'.result)
       /\ last'.op = "createVideo" => FreshCreate(videos, videos', last'.result)
       /\ last'.op = "createProblemArea"
             => FreshCreate(problemAreas, problemAreas', last'.result)
       /\ UniqueIds(players') /\ UniqueIds(assessments') /\ UniqueIds(metrics')
       /\ UniqueIds(videos') /\ UniqueIds(problemAreas')]_vars

\* C14 witness: two createAssessment calls for player 1 were in flight at
\* once (both new assessments are flagged), a third create ran, and the
\* second call has returned id 6.
C14_Witness ==
    /\ last.op = "createAssessment"
    /\ last.result.id = 6
    /\ pending = << >>
    /\ LatestIds(assessments, 1) = {5, 6}
    /\ Creates = 3

(***************************************************************************)
(* Players: they are created, updated and looked up, by a direct caller    *)
(* and through GET /api/players/:id; assessments are looked up.            *)
(***************************************************************************)
GetPlayer(id) ==
    /\ last' = [op |-> "getPlayer", id |-> id, result |-> getPlayer(id)]
    /\ UNCHANGED <<storeVars, pending>>

GetAssessment(id) ==
    /\ last' = [op |-> "getAssessment", id |-> id, result |-> getAssessment(id)]
    /\ UNCHANGED <<storeVars, pending>>

\* Mutant: the route answers 200 with an empty body for a player that is not
\* stored.
GetApiPlayer_No404(param) ==
    LET id == parseInt(param)
    IN  /\ last' = IF isNaN(id)
                   THEN [op |-> "GET /api/players/:id", param |-> param, status |-> 400]
                   ELSE [op |-> "GET /api/players/:id", param |-> param, status |-> 200,
                         body |-> getPlayer(id)]
        /\ UNCHANGED <<storeVars, pending>>

\* GET /api/players/:id
GetApiPlayer(param) ==
    LET id == parseInt(param)
        player == getPlayer(id)
    IN  /\ last' = IF isNaN(id)
                   THEN [op |-> "GET /api/players/:id", param |-> param, status |-> 400]
                   ELSE IF player = undefined
                   THEN [op |-> "GET /api/players/:id", param |-> param, status |-> 404]
                   ELSE [op |-> "GET /api/players/:id", param |-> param, status |-> 200,
                         body |-> player]
        /\ UNCHANGED <<storeVars, pending>>

\* Partial<InsertPlayer>: some fields, one field, null for a field, none.
PlayerPartials ==
    {[status |-> "stable", batch |-> "Evening Batch"], [name |-> "K. Rao"],
     [status |-> NULL], [f \in {} |-> NULL]}

\* Ids asked for: a demo player, the first created player, no player.
PlayerIdsAsked == {1, 5, 9}

\* Ids asked for: a demo assessment, no assessment.
AssessmentIdsAsked == {1, 9}

PlayerNext ==
    \/ \E p \in InsertPlayers : Room /\ createPlayer(p) /\ UNCHANGED chartVars
    \/ \E id \in PlayerIdsAsked, u \in PlayerPartials :
          updatePlayer(id, u) /\ UNCHANGED chartVars
    \/ \E id \in PlayerIdsAsked : GetPlayer(id) /\ UNCHANGED chartVars
    \/ \E id \in AssessmentIdsAsked : GetAssessment(id) /\ UNCHANGED chartVars
    \/ \E param \in PathParams : GetApiPlayer(param) /\ UNCHANGED chartVars

PlayerSpec == Init /\ [][PlayerNext]_vars

\* Where the map holds the record of an id.
IndexOf(m, id) == CHOOSE i \in 1..Len(m) : m[i].id = id

\* C15: updatePlayer on a stored player stores and returns a record in which
\* every field named in the partial has the supplied value and every other
\* field, id included, its previous value; no other player and no
\* assessment, metric, video or problem area changes.
C15_UpdateMergesAndFrames ==
    [][(last'.op = "updatePlayer" /\ MapHas(players, last'.id)) =>
          LET i == IndexOf(players, last'.id)
              before == players[i]
              partial == last'.playerUpdate
              after == last'.result
          IN  /\ players'[i] = after
              /\ DOMAIN after = DOMAIN before \cup DOMAIN partial
              /\ \A f \in DOMAIN partial : after[f] = partial[f]
              /\ \A f \in DOMAIN before \ DOMAIN partial : after[f] = before[f]
              /\ after.id = last'.id
              /\ Len(players') = Len(players)
              /\ \A j \in 1..Len(players) : j # i => players'[j] = players[j]
              /\ UNCHANGED <<assessments, metrics, videos, problemAreas, playerCurrentId,
                             assessmentCurrentId, metricCurrentId, videoCurrentId,
                             problemAreaCurrentId, pending>>]_vars

\* C15 witness: the created player 5 was renamed and then given a status and
\* a batch: the record returned has the new status and batch and still the
\* new name, and player 1 is as the demo data made it.
C15_Witness ==
    /\ last.op = "updatePlayer"
    /\ last.id = 5
    /\ last.playerUpdate = [status |-> "stable", batch |-> "Evening Batch"]
    /\ last.result = [id |-> 5, name |-> "K. Rao", batch |-> "Evening Batch",
                      status |-> "stable"]
    /\ getPlayer(5) = last.result
    /\ getPlayer(1) = demoPlayers[1]

\* C16: getPlayer, getAssessment and updatePlayer with an id that is not
\* stored return undefined, GET /api/players/:id answers 404 for it, and no
\* collection and no counter changes; updatePlayer creates no player.
C16_NotFoundChangesNothing ==
    [][/\ (last'.op = "getPlayer" /\ ~MapHas(players, last'.id))
             => last'.result = undefined /\ UNCHANGED <<storeVars, pending>>
       /\ (last'.op = "getAssessment" /\ ~MapHas(assessments, last'.id))
             => last'.result = undefined /\ UNCHANGED <<storeVars, pending>>
       /\ (last'.op = "updatePlayer" /\ ~MapHas(players, last'.id))
             => last'.result = undefined /\ UNCHANGED <<storeVars, pending>>
       /\ (/\ last'.op = "GET /api/players/:id"
           /\ ~isNaN(parseInt(last'.param))
           /\ ~MapHas(players, parseInt(last'.param)))
             => last'.status = 404 /\ UNCHANGED <<storeVars, pending>>]_vars

\* C16 witness: after a player was created, updatePlayer was called with id
\* 9, which is not stored: undefined came back and there are five players.
C16_Witness ==
    /\ last.op = "updatePlayer"
    /\ last.id = 9
    /\ last.playerUpdate = [name |-> "K. Rao"]
    /\ last.result = undefined
    /\ Len(players) = 5
    /\ ~MapHas(players, 9)

(***************************************************************************)
(* The flags createAssessment leaves alone.                                *)
(***************************************************************************)
\* C17: createAssessment with isLatest false (absent is falsy as well, and
\* takes the same branch) inserts the assessment with isLatest not true and
\* leaves every stored assessment, of every player, with the flag it had.
C17_NotLatestTouchesNoFlag ==
    [][(last'.op = "createAssessment" /\ ~last'.result.isLatest) =>
          /\ Len(assessments') = Len(assessments) + 1
          /\ assessments'[Len(assessments')] = last'.result
          /\ \A i \in 1..Len(assessments) :
                /\ assessments'[i].id = assessments[i].id
                /\ assessments'[i].isLatest = assessments[i].isLatest]_vars

\* C17 witness: an assessment of player 1 was created with isLatest false
\* while a createAssessment(isLatest) of player 1 was suspended; assessment 4
\* is still the one flagged.
C17_Witness ==
    /\ last.op = "createAssessment"
    /\ last.result.playerId = 1
    /\ ~last.result.isLatest
    /\ Len(pending) = 1
    /\ pending[1].insertAssessment.playerId = 1
    /\ LatestIds(assessments, 1) = {4}

\* C18: a step changes a stored assessment only by setting its isLatest from
\* true to false, and only a createAssessment(isLatest = true) of the same
\* player does; no stored assessment is removed.
C18_OnlyDemotionChangesAssessments ==
    [][/\ Len(assessments') >= Len(assessments)
       /\ \A i \in 1..Len(assessments) :
             \/ assessments'[i] = assessments[i]
             \/ /\ assessments[i].isLatest
                /\ assessments'[i] = [assessments[i] EXCEPT !.isLatest = FALSE]
                /\ last'.op = "createAssessment"
                /\ last'.result.isLatest
                /\ last'.result.playerId = assessments[i].playerId]_vars

\* C18 witness: a createAssessment(isLatest) of player 1 has demoted
\* assessment 4, which is otherwise as the demo data made it, and the flagged
\* assessment 5 of player 2 is still flagged.
C18_Witness ==
    /\ last.op = "createAssessment"
    /\ last.result.playerId = 1
    /\ last.result.isLatest
    /\ last.demoted = {4}
    /\ getAssessment(4) = [demoAssessments[4] EXCEPT !.isLatest = FALSE]
    /\ LatestIds(assessments, 2) = {5}

\* The greatest of a set of ids, 0 for none.
MaxId(ids) == IF ids = {} THEN 0 ELSE CHOOSE id \in ids : \A other \in ids : other <= id

\* The ids of the assessments of playerId in map m.
AssessmentIdsOf(m, playerId) ==
    {m[i].id : i \in {j \in 1..Len(m) : m[j].playerId = playerId}}

\* C19 as stated: once the createAssessment calls made have returned, the
\* assessment of a player that is flagged isLatest is the player's most
\* recently created one.
C19_LatestIsNewest ==
    pending = << >> =>
        \A p \in PlayerIdsIn(assessments) :
            LatestIds(assessments, p) = {MaxId(AssessmentIdsOf(assessments, p))}

\* C19 as amended: a createAssessment(isLatest = true) that returns leaves
\* its assessment, the player's most recently created one, flagged; any other
\* step leaves the most recently created flagged assessment of every player
\* the one it was.
C19_NewestCreatedLatestIsFlagged ==
    [][\A p \in PlayerIdsIn(assessments') :
          IF /\ last'.op = "createAssessment"
             /\ last'.result.isLatest
             /\ last'.result.playerId = p
          THEN /\ MaxId(LatestIds(assessments', p)) = last'.result.id
               /\ MaxId(AssessmentIdsOf(assessments', p)) = last'.result.id
          ELSE MaxId(LatestIds(assessments', p)) = MaxId(LatestIds(assessments, p))]_vars

\* C19 witness: for player 1 assessment 5 was created with isLatest true and
\* then assessment 6 with isLatest false: 5 is the one flagged.
C19_Witness ==
    /\ last.op = "createAssessment"
    /\ last.result.playerId = 1
    /\ last.result.id = 6
    /\ ~last.result.isLatest
    /\ pending = << >>
    /\ LatestIds(assessments, 1) = {5}

(***************************************************************************)
(* The profile page: it asks GET /api/players/:id/assessments and takes    *)
(* the first assessment of the answer as the latest one.                   *)
(***************************************************************************)
\* GET /api/players/:id/assessments: res.json(assessments), in the order
\* getPlayerAssessments lists them.
GetApiPlayerAssessments(id) == getPlayerAssessments(id)

\* assessments && assessments.length > 0 ? assessments[0].id : undefined
latestAssessmentId(data) == IF Len(data) > 0 THEN data[1].id ELSE undefined.id

\* assessments.sort((a, b) => new Date(b.weekStart) - new Date(a.weekStart)),
\* where the history is listed: the array the query holds is sorted in place,
\* newest first, assessments of one weekStart staying in their order.
RECURSIVE InsertNewestFirst(_, _)
InsertNewestFirst(sorted, a) ==
    IF sorted = << >> THEN <<a>>
    ELSE IF Head(sorted).weekStart >= a.weekStart
         THEN <<Head(sorted)>> \o InsertNewestFirst(Tail(sorted), a)
         ELSE <<a>> \o sorted

RECURSIVE SortNewestFirst(_)
SortNewestFirst(list) ==
    IF list = << >> THEN << >>
    ELSE InsertNewestFirst(SortNewestFirst(SubSeq(list, 1, Len(list) - 1)), list[Len(list)])

\* The page of the player in the path loads: the answer of the query is
\* consumed as it came, and the history list then sorts the held array.
PlayerProfile(param) ==
    LET playerId == parseInt(param)
        data == GetApiPlayerAssessments(playerId)
    IN  /\ ~isNaN(playerId)
        /\ last' = [op |-> "PlayerProfile", playerId |-> playerId, consumed |-> data,
                    latestAssessmentId |-> latestAssessmentId(data),
                    assessments |-> SortNewestFirst(data)]
        /\ UNCHANGED <<storeVars, pending>>

\* The page renders again without a refetch: it consumes the array it holds.
PlayerProfileRerender ==
    /\ last.op = "PlayerProfile"
    /\ last' = [last EXCEPT !.consumed = last.assessments,
                            !.latestAssessmentId = latestAssessmentId(last.assessments),
                            !.assessments = SortNewestFirst(last.assessments)]
    /\ UNCHANGED <<storeVars, pending>>

ProfileNext ==
    \/ AssessNext
    \/ \E param \in PathParams : PlayerProfile(param) /\ UNCHANGED chartVars
    \/ PlayerProfileRerender /\ UNCHANGED chartVars

ProfileSpec == Init /\ [][ProfileNext]_vars

\* C20: the assessment list the profile page consumes is newest first by
\* weekStart, so the assessment the page takes as the latest one, element 0,
\* is the assessment of the list with the greatest weekStart.
C20_ElementZeroIsNewestWeek ==
    (last.op = "PlayerProfile" /\ last.consumed # << >>) =>
        /\ \A i, j \in 1..Len(last.consumed) :
              i < j => last.consumed[i].weekStart >= last.consumed[j].weekStart
        /\ \A i \in 1..Len(last.consumed) :
              last.consumed[i].weekStart
                  <= MapGet(last.consumed, last.latestAssessmentId).weekStart

(***************************************************************************)
(* Metric types of any name: metrics are created and the profile page      *)
(* hands the chart the player's assessments and the metrics of the         *)
(* assessment it takes as the latest one.                                  *)
(***************************************************************************)
\* GET /api/assessments/:id/metrics
GetApiAssessmentMetrics(id) == getAssessmentMetrics(id)

\* The page loads and, with assessments and chartMetrics there, renders
\* <PerformanceChart assessments={assessments} metrics={chartMetrics} />.
ProfileChart(param) ==
    LET playerId == parseInt(param)
        data == GetApiPlayerAssessments(playerId)
        chartMetrics == GetApiAssessmentMetrics(latestAssessmentId(data))
    IN  /\ ~isNaN(playerId)
        /\ Len(data) > 0
        /\ propAssessments' = data
        /\ propMetrics' = chartMetrics
        /\ IF chartDataThrows(data, chartMetrics)
           THEN /\ last' = [op |-> "chartData.TypeError"]
                /\ weeklyData' = << >>
           ELSE /\ last' = [op |-> "chartData"]
                /\ weeklyData' = chartData(data, chartMetrics).weeklyData
        /\ UNCHANGED <<storeVars, pending>>

\* Metric types the chart has no name for: a new one, one that is a key of
\* every data point, one that Object.prototype has.
VocabularyTypes == {"spin_defence", "name", "constructor"}

VocabularyMetrics ==
    {[assessmentId |-> a, metricType |-> t, rating |-> r] :
        a \in {1, 4}, t \in VocabularyTypes, r \in {0, 4}}

VocabularyNext ==
    \/ \E m \in VocabularyMetrics : Room /\ createMetric(m) /\ UNCHANGED chartVars
    \/ \E param \in PathParams : ProfileChart(param)

VocabularySpec == Init /\ [][VocabularyNext]_vars

\* C21: for any metricType, a metric of that type is stored by createMetric
\* and the weekly series holds the real averaged score for it in the week of
\* its assessment.
C21_AnyMetricTypeIsCharted ==
    (\A m \in Range(metrics) :
          (/\ last.op \in {"chartData", "chartData.TypeError"}
           /\ m \in Range(propMetrics)
           /\ MapHas(propAssessments, m.assessmentId))
          => /\ last.op = "chartData"
             /\ LET k == Rank(propAssessments, IndexOf(propAssessments, m.assessmentId))
                IN  /\ m.metricType \in DOMAIN weeklyData[k]
                    /\ weeklyData[k][m.metricType]
                          = RoundedMean10(RatingsOf(propMetrics, m.assessmentId,
                                                    m.metricType)))

(***************************************************************************)
(* The four POST routes, driven with path parameters and bodies that are   *)
(* accepted and with ones that are rejected.                               *)
(***************************************************************************)
\* "1abc" is a path parameter parseInt reads 1 from.
RoutePathParams == {"1", "9", "abc", "1abc"}

RouteNext ==
    \/ \E param \in RoutePathParams, body \in AssessmentBodiesOf({31}) :
          Room /\ PostPlayerAssessment(param, body) /\ UNCHANGED chartVars
    \/ \E param \in RoutePathParams, body \in MetricBodies :
          Room /\ PostAssessmentMetric(param, body) /\ UNCHANGED chartVars
    \/ \E param \in RoutePathParams, body \in ProblemAreaBodies :
          Room /\ PostAssessmentProblemArea(param, body) /\ UNCHANGED chartVars
    \/ \E param \in RoutePathParams, body \in VideoBodies :
          Room /\ PostPlayerVideo(param, body) /\ UNCHANGED chartVars
    \/ Resume

RouteSpec == Init /\ [][RouteNext]_vars

PostRoutes ==
    {"POST /api/players/:id/assessments", "POST /api/assessments/:id/metrics",
     "POST /api/assessments/:id/problem-areas", "POST /api/players/:id/videos"}

Rejected(l) == l.op \in PostRoutes /\ l.status = 400

\* The step stored the record it answers, under the id its counter stood at,
\* or suspended a createAssessment at its await.
ServedNormally ==
    \/ /\ last'.op = "createAssessment.await"
       /\ Len(pending') = Len(pending) + 1
       /\ storeVars' = storeVars
    \/ /\ last'.op = "createAssessment"
       /\ last'.result.id = assessmentCurrentId
       /\ assessmentCurrentId' = assessmentCurrentId + 1
       /\ MapGet(assessments', last'.result.id) = last'.result
    \/ /\ last'.op = "createMetric"
       /\ last'.result.id = metricCurrentId
       /\ metricCurrentId' = metricCurrentId + 1
       /\ metrics' = Append(metrics, last'.result)
    \/ /\ last'.op = "createProblemArea"
       /\ last'.result.id = problemAreaCurrentId
       /\ problemAreaCurrentId' = problemAreaCurrentId + 1
       /\ problemAreas' = Append(problemAreas, last'.result)
    \/ /\ last'.op = "createVideo"
       /\ last'.result.id = videoCurrentId
       /\ videoCurrentId' = videoCurrentId + 1
       /\ videos' = Append(videos, last'.result)

Stays(r, after, listing) ==
    /\ MapGet(after, r.id) = r
    /\ r \in Range(listing)

\* C23: no step removes a record. A player stored before a step is stored
\* after it, with the same fields unless the step is updatePlayer of that
\* player (then with the update merged in), and is listed by getPlayers; an
\* assessment is stored after it with the same fields unless the step is a
\* createAssessment that demoted it (then only isLatest went from true to
\* false), and is listed for its player; a metric, a video and a problem
\* area are stored unchanged and listed for their parent; and the record a
\* create returns is stored under its id.
C23_NothingDeleted ==
    [][/\ \A p \in Range(players) :
             LET q == MapGet(players', p.id)
             IN  /\ q # undefined
                 /\ \/ q = p
                    \/ /\ last'.op = "updatePlayer" /\ last'.id = p.id
                       /\ q = Merge(p, last'.playerUpdate)
                 /\ q \in Range(getPlayers')
       /\ \A a \in Range(assessments) :
             LET b == MapGet(assessments', a.id)
             IN  /\ b # undefined
                 /\ \/ b = a
                    \/ /\ last'.op = "createAssessment" /\ a.id \in last'.demoted
                       /\ a.isLatest
                       /\ b = [a EXCEPT !.isLatest = FALSE]
                 /\ b \in Range(getPlayerAssessments(a.playerId)')
       /\ \A m \in Range(metrics) :
             Stays(m, metrics', getAssessmentMetrics(m.assessmentId)')
       /\ \A v \in Range(videos) : Stays(v, videos', getPlayerVideos(v.playerId)')
       /\ \A a \in Range(problemAreas) :
             Stays(a, problemAreas', getAssessmentProblemAreas(a.assessmentId)')
       /\ last'.op = "createPlayer" => MapGet(players', last'.result.id) = last'.result
       /\ last'.op = "createAssessment"
             => MapGet(assessments', last'.result.id) = last'.result
       /\ last'.op = "createMetric" => MapGet(metrics', last'.result.id) = last'.result
       /\ last'.op = "createVideo" => MapGet(videos', last'.result.id) = last'.result
       /\ last'.op = "createProblemArea"
             => MapGet(problemAreas', last'.result.id) = last'.result]_vars

\* C23 witness: after an update of player 1 and a createAssessment that
\* demoted assessment 4, with a metric created since construction, all demo
\* records and the created ones are stored.
C23_Witness ==
    /\ last.op = "createAssessment" /\ 4 \in last.demoted
    /\ MapGet(players, 1).status = "stable"
    /\ Len(metrics) = Len(demoMetrics) + 1
    /\ MapIds(demoAssessments) \subseteq MapIds(assessments)
    /\ ~MapGet(assessments, 4).isLatest

(***************************************************************************)
(* Construction: the store starts empty and initDemoData runs, call by     *)
(* call; the callbacks it left suspended run when the constructor's        *)
(* synchronous code has ended.                                             *)
(***************************************************************************)
\* The assessments in the order initDemoData lists them.
listedAssessments ==
    << [playerId |-> 1, weekStart |-> 24, weekEnd |-> 30, notes |-> "n1", isLatest |-> TRUE],
       [playerId |-> 1, weekStart |-> 17, weekEnd |-> 23, notes |-> "n2", isLatest |-> FALSE],
       [playerId |-> 1, weekStart |-> 10, weekEnd |-> 16, notes |-> "n3", isLatest |-> FALSE],
       [playerId |-> 1, weekStart |-> 3, weekEnd |-> 9, notes |-> "n4", isLatest |-> FALSE] >>

\* The insert record a demo record was created from.
Listed(record) == [f \in DOMAIN record \ {"id"} |-> record[f]]

\* The constructor up to the call of initDemoData.
ConstructInit ==
    /\ players = << >> /\ assessments = << >> /\ metrics = << >>
    /\ videos = << >> /\ problemAreas = << >>
    /\ playerCurrentId = 1 /\ assessmentCurrentId = 1 /\ metricCurrentId = 1
    /\ videoCurrentId = 1 /\ problemAreaCurrentId = 1
    /\ pending = << >>
    /\ last = [op |-> "new MemStorage"]
    /\ NoChart

\* The createAssessment calls initDemoData has made.
AssessmentCalls == Len(assessments) + Len(pending)

\* initDemoData has made all its calls.
InitDemoDataReturned ==
    /\ Len(players) >= Len(demoPlayers)
    /\ AssessmentCalls >= Len(listedAssessments)
    /\ Len(metrics) >= Len(demoMetrics)
    /\ Len(videos) >= Len(demoVideos)
    /\ Len(problemAreas) >= Len(demoProblemAreas)

\* Construction has finished: no callback of initDemoData is left suspended.
Constructed == InitDemoDataReturned /\ Len(assessments) >= Len(listedAssessments)

\* initDemoData, one call at a time in program order; a callback suspended
\* at its await goes on only when the synchronous code has ended.
initDemoData ==
    \/ /\ Len(players) < Len(demoPlayers)
       /\ createPlayer(Listed(demoPlayers[Len(players) + 1]))
    \/ /\ Len(players) = Len(demoPlayers)
       /\ AssessmentCalls < Len(listedAssessments)
       /\ createAssessment(listedAssessments[AssessmentCalls + 1])
    \/ /\ AssessmentCalls = Len(listedAssessments)
       /\ Len(metrics) < Len(demoMetrics)
       /\ createMetric(Listed(demoMetrics[Len(metrics) + 1]))
    \/ /\ Len(metrics) = Len(demoMetrics)
       /\ Len(videos) < Len(demoVideos)
       /\ createVideo(Listed(demoVideos[Len(videos) + 1]))
    \/ /\ Len(videos) = Len(demoVideos)
       /\ Len(problemAreas) < Len(demoProblemAreas)
       /\ createProblemArea(Listed(demoProblemAreas[Len(problemAreas) + 1]))
    \/ /\ InitDemoDataReturned
       /\ createAssessmentResume

ConstructNext ==
    \/ ~Constructed /\ initDemoData /\ UNCHANGED chartVars
    \/ Constructed /\ AssessNext

ConstructSpec == ConstructInit /\ [][ConstructNext]_vars

\* C24: when construction has finished, the demo assessments have ids 1..4
\* in the order they are listed, so id 1 is the one of 24 July with isLatest
\* true, and the demo metrics and problem areas (assessmentId 1) belong to
\* the latest assessment of player 1.
C24_DemoIdsInListedOrder ==
    (Constructed /\ Creates = 0 /\ pending = << >>)
        => /\ \A i \in 1..Len(listedAssessments) :
                 Listed(MapGet(assessments, i)) = listedAssessments[i]
           /\ MapGet(assessments, 1).weekStart = 24
           /\ MapGet(assessments, 1).isLatest
           /\ \A m \in Range(demoMetrics) :
                 MapGet(metrics, m.id).assessmentId \in LatestIds(assessments, 1)
           /\ \A a \in Range(demoProblemAreas) :
                 MapGet(problemAreas, a.id).assessmentId \in LatestIds(assessments, 1)

\* The store when construction has finished is the store every other
\* specification starts from.
ConstructedIsStoreInit ==
    (Constructed /\ Creates = 0 /\ pending = << >>)
        => /\ players = demoPlayers /\ assessments = demoAssessments
           /\ metrics = demoMetrics /\ videos = demoVideos
           /\ problemAreas = demoProblemAreas
           /\ playerCurrentId = Len(demoPlayers) + 1
           /\ assessmentCurrentId = Len(demoAssessments) + 1
           /\ metricCurrentId = Len(demoMetrics) + 1
           /\ videoCurrentId = Len(demoVideos) + 1
           /\ problemAreaCurrentId = Len(demoProblemAreas) + 1

(***************************************************************************)
(* A reader beside the writers: getPlayerAssessments is called while       *)
(* createAssessment calls are suspended at their await.                    *)
(***************************************************************************)
\* getPlayerAssessments called by a reader: its body runs at the call.
GetPlayerAssessments(playerId) ==
    /\ last' = [op |-> "getPlayerAssessments", playerId |-> playerId,
                result |-> getPlayerAssessments(playerId)]
    /\ UNCHANGED <<storeVars, pending>>

ReaderNext ==
    \/ \E a \in {x \in InsertAssessmentsOf({31}) : x.playerId = 1} :
          Room /\ createAssessment(a) /\ UNCHANGED chartVars
    \/ \E playerId \in {1, 2} : GetPlayerAssessments(playerId) /\ UNCHANGED chartVars
    \/ Resume

ReaderSpec == Init /\ [][ReaderNext]_vars

\* The createAssessment(isLatest = true) calls in flight for the player whose
\* scan found a current assessment.
InFlightOver(playerId) ==
    {i \in 1..Len(pending) :
        /\ pending[i].insertAssessment.playerId = playerId
        /\ \E j \in 1..Len(pending[i].playerAssessments) :
              pending[i].playerAssessments[j].isLatest}

FlaggedIn(result) == {j \in 1..Len(result) : result[j].isLatest}

\* C25: a getPlayerAssessments result taken while a createAssessment with
\* isLatest true is in flight for a player who had a current assessment
\* shows exactly one assessment flagged isLatest.
C25_ReaderSeesExactlyOneLatest ==
    (last.op = "getPlayerAssessments" /\ InFlightOver(last.playerId) # {})
        => Cardinality(FlaggedIn(last.result)) = 1

\* The part that holds: such a result never shows no flagged assessment.
ReaderNeverSeesNone ==
    (last.op = "getPlayerAssessments" /\ InFlightOver(last.playerId) # {})
        => FlaggedIn(last.result) # {}

(***************************************************************************)
(* Real scores and estimates in the weekly series.                         *)
(***************************************************************************)
\* The real ratings the k-th entry of the series has for the type.
RealRatings(k, t) == RatingsOf(propMetrics, AssessmentOfEntry(k).id, t)

\* C26: a score computed from real ratings is never replaced by an estimate.
\* Whenever the assessment of a week has a metric of a type, the value shown
\* for the week and the type is the rounded mean of its ratings, also when
\* that mean is 0.
C26_RealScoreNeverReplaced ==
    Rendered =>
        \A k \in 1..Len(weeklyData) : \A t \in ChartMetricTypes :
            RealRatings(k, t) # << >>
                => /\ t \in DOMAIN weeklyData[k]
                   /\ weeklyData[k][t] = RoundedMean10(RealRatings(k, t))


\* Ratings of the reference metric: below, in and above the 1-5 range.
EstimateRatings == {-5, 0, 3, 4, 90}

EstimateMetrics ==
    {[assessmentId |-> a, metricType |-> t, rating |-> r] :
        a \in 1..MaxChartAssessments, t \in ChartMetricTypes, r \in EstimateRatings}

\* No metric, one, or two (the first of a type is the reference).
EstimateMetricProps ==
    {<< >>}
    \cup {<<[id |-> 1] @@ m>> : m \in EstimateMetrics}
    \cup {<<[id |-> 1] @@ m, [id |-> 2] @@ n>> : m \in EstimateMetrics, n \in EstimateMetrics}

EstimateInit ==
    /\ StoreInit
    /\ propAssessments \in AssessmentProps
    /\ propMetrics \in EstimateMetricProps
    /\ weeklyData = << >>

EstimateSpec == EstimateInit /\ [][ChartNext]_vars

\* The value of the k-th entry for the type is an estimate: the week has no
\* real rating of the type, or the value is not the average of those it has.
IsEstimate(k, t) ==
    \/ RealRatings(k, t) = << >>
    \/ weeklyData[k][t] # Average10(RealRatings(k, t))

\* C27: an estimate stands only in a week other than the last of the sorted
\* series and only under one of the six known metric names, and it is one
\* of the integers 1..5 (here in tenths), whatever the number of assessments
\* and the rating of the reference metric.
C27_EstimatesConfined ==
    Rendered =>
        \A k \in 1..Len(weeklyData) : \A t \in ValueKeys(weeklyData[k]) :
            IsEstimate(k, t)
                => /\ k < Len(weeklyData)
                   /\ t \in DOMAIN metricNames
                   /\ weeklyData[k][t] \in {10 * n : n \in 1..5}

\* C27 witness: in a week before the last, an estimate from the reference
\* rating 90 is brought down to 5, an unknown type has no value, and the
\* last week holds no estimate.
C27_Witness ==
    /\ Rendered
    /\ Len(weeklyData) > 1
    /\ LatestValue(propMetrics, "bat_connect") = 90
    /\ \E k \in 1..(Len(weeklyData) - 1) :
          /\ RealRatings(k, "bat_connect") = << >>
          /\ weeklyData[k]["bat_connect"] = 50
          /\ "spin_defence" \notin DOMAIN weeklyData[k]
    /\ "footwork" \notin DOMAIN weeklyData[Len(weeklyData)]

(***************************************************************************)
(* The filters of the assessment page whose selects all start at the       *)
(* plain value All.                                                        *)
(***************************************************************************)
PlainAllFilters ==
    [shotType : {Absent, "All", "Cover Drive"},
     ballSpeed : {Absent, "All", "Medium"},
     batConnect : {Absent, "All", "Middle"}]

PlainAllNext ==
    \/ \E v \in TaggedVideos : Room /\ createVideo(v) /\ UNCHANGED chartVars
    \/ \E p \in VideoPlayerIds, f \in PlainAllFilters :
          GetFilteredVideos(p, f) /\ UNCHANGED chartVars

PlainAllSpec == Init /\ [][PlainAllNext]_vars

\* C28: the value All in a field of the filters is a wildcard: the call
\* returns the list the call without that criterion returns.
C28_PlainAllIsWildcard ==
    last.op = "getFilteredVideos" =>
        \A field \in FilterFields :
            last.filters[field] = "All"
                => last.result
                     = getFilteredVideos(last.playerId, [last.filters EXCEPT ![field] = Absent])

\* The part that holds: All is a wildcard in the batConnect field.
PlainAllIsWildcardOfBatConnect ==
    (last.op = "getFilteredVideos" /\ last.filters.batConnect = "All")
        => last.result
             = getFilteredVideos(last.playerId, [last.filters EXCEPT !.batConnect = Absent])

====
